---- MODULE Spec2Model ----
(***************************************************************************)
(* The DDoS / abuse-detection middleware of the service.                   *)
(*                                                                         *)
(* Two variants of the middleware exist in the repository:                 *)
(*   - src/src/middleware/ddos-detector.ts : synchronous, process-local    *)
(*     tracking only, with an `enabled` switch (Spec; SpecFair with the    *)
(*     event loop's fairness; SpecPair with two identifiers; SpecConfig    *)
(*     with the settings read from the environment and updated;            *)
(*     SpecSliding with the history of the requests passed on);            *)
(*   - src/unnamed/part_004 : asynchronous, shared store (Redis) first,    *)
(*     process-local tracking as the fallback. It is explored with         *)
(*     requests handled one after the other                (SpecStore),    *)
(*     with evaluations interleaving at their store calls   (SpecRace),    *)
(*     with store calls whose reply never comes             (SpecHang),    *)
(*     and next to a process whose store is not connected   (SpecTwin).    *)
(*     SpecBoth compares the two paths request by request.                 *)
(* checkDDoSInMemory is the same function, line for line, in both.         *)
(*                                                                         *)
(* Time is the wall clock in whole seconds; Date.now() is clock * 1000.    *)
(*                                                                         *)
(* Two services next to the middleware are explored on their own:          *)
(*   - the refresh tokens of AuthService, src/src/services/kafka.ts        *)
(*     (SpecAuth);                                                         *)
(*   - the log transport, src/src/services/database-transport.ts           *)
(*     (SpecTransport).                                                    *)
(***************************************************************************)
EXTENDS Integers, FiniteSets, Sequences, Bags, TLC

VARIABLES
    env,             \* process.env: the texts of the DDOS_* variables
    auth,            \* AuthService and the refresh-token keys of the store
    transport,       \* DatabaseTransport: its buffer, its timer, the inserts
                     \*   in flight and the rows of the log table
    clock,           \* wall clock, whole seconds since the process started
    cfg,             \* DDOS_CONFIG
    requestTracker,  \* the module-level Map: identifier -> tracker record
    timers,          \* pending setTimeout callbacks (a bag of [ip, due])
    redisClient,     \* RedisService.client is set: connect() ran at startup,
                     \*   before the server listens
    store,           \* the keys of the shared store: key -> [value, expiresAt],
                     \* with the time the key was created (since, history)
    inflight,        \* evaluations suspended at a store call (a bag)
    faults,          \* store calls that have failed so far
    twinTracker,     \* the Map of a second process, whose store is not connected
    twinTimers,      \* its pending setTimeout callbacks
    twinLast,        \* what it did with the latest request
    overtaken,       \* history: a second passed or a block timer ran while a
                     \*   store call of the first process was pending
    seen,            \* history: requests evaluated against the live record
                     \*   (saturates at MaxRequestThreshold)
    blockTrig,       \* history: when and where the identifier's latest block
                     \*   was triggered
    passed,          \* history: the requests passed on, per identifier and
                     \*   second (<< >> where this history is not kept)
    last             \* observation: what the request handled in the step
                     \*   into this state did (NoObservation after other steps)

vars == <<env, auth, transport, clock, cfg, requestTracker, timers, redisClient, store, inflight,
          faults, twinTracker, twinTimers, twinLast, overtaken, seen, blockTrig,
          passed, last>>

\* what no step of the middleware changes
restVars == <<env, auth, transport>>

twinVars == <<twinTracker, twinTimers, twinLast, overtaken>>

storeVars == <<redisClient, store, inflight, faults>>

----------------------------------------------------------------------------
(* Bounds of the exploration *)

MaxClock == 3
MaxWindowSeconds == 2
MaxBlockDuration == 3
MaxRequestThreshold == 3
MaxBlockThreshold == 3
MaxInFlight == 2
MaxStoreCount == 4
MaxFaults == 1
MaxCount == 3
MaxIat == 1
MaxLogged == 4
batchSize == 2

(* Program constants *)

MsPerSecond == 1000
TooManyRequests == 429
HashChars == 32
Base64Chars == 4
Base64Bytes == 3

----------------------------------------------------------------------------
(* Requests *)

NoIp == "none"
AllIps == {"10.0.0.5", NoIp}

\* the source addresses of the requests of the single-client specifications
Ips == {"10.0.0.5"}

\* slip: req.ip is used as it is, without the fallback
ClientIpAsGiven(ip) == ip

\* const clientIp = req.ip || 'unknown'
ClientIp(ip) == IF ip = NoIp THEN "unknown" ELSE ip

Ids == {ClientIp(ip) : ip \in AllIps}

\* Date.now()
Now == clock * MsPerSecond

Never == -1

\* the configurations a run may be under: config.ddos is read from the
\* environment and the two thresholds are not compared with each other
Configs ==
    [enabled : BOOLEAN,
     windowSeconds : 1..MaxWindowSeconds,
     requestThreshold : 1..MaxRequestThreshold,
     blockThreshold : 1..MaxBlockThreshold,
     blockDuration : 1..MaxBlockDuration]

\* parseInt gives NaN for a text that does not start with a number. NaN is
\* represented by a number below every number a run computes; a product of
\* NaN and a positive number is again NaN.
NaN == -1000000

IsNaN(x) == x <= NaN

\* the warning threshold is not above the blocking threshold
Ordered(c) == c.requestThreshold <= c.blockThreshold

\* config.ddos has no `enabled` key, so DDOS_CONFIG.enabled starts undefined
LoadedEnabled == FALSE

\* the texts an environment variable may hold; <<>> is a variable that is not
\* set (or set to the empty text)
EnvValues == {<< >>, <<"2">>, <<"0">>, <<"-", "1">>, <<"x">>, <<"1", "x">>}

DigitOf ==
    ("0" :> 0) @@ ("1" :> 1) @@ ("2" :> 2) @@ ("3" :> 3) @@ ("4" :> 4) @@
    ("5" :> 5) @@ ("6" :> 6) @@ ("7" :> 7) @@ ("8" :> 8) @@ ("9" :> 9)

\* the value of the digits a text starts with
RECURSIVE LeadingDigits(_, _)
LeadingDigits(text, acc) ==
    IF text = << >> \/ Head(text) \notin DOMAIN DigitOf
    THEN acc
    ELSE LeadingDigits(Tail(text), acc * 10 + DigitOf[Head(text)])

\* parseInt(value, 10): an optional sign, then the digits up to the first
\* character that is not one; NaN when there is no digit
ParseInt(text) ==
    LET signed == text # << >> /\ Head(text) \in {"-", "+"}
        digits == IF signed THEN Tail(text) ELSE text
    IN  IF digits = << >> \/ Head(digits) \notin DOMAIN DigitOf
        THEN NaN
        ELSE IF signed /\ Head(text) = "-"
             THEN 0 - LeadingDigits(digits, 0)
             ELSE LeadingDigits(digits, 0)

\* return value ? parseInt(value, 10) : defaultValue
GetEnvNumber(value, defaultValue) ==
    IF value # << >> THEN ParseInt(value) ELSE defaultValue

DefaultWindowSeconds == 60
DefaultRequestThreshold == 100
DefaultBlockThreshold == 200
DefaultBlockDuration == 300

\* config.ddos as read from the environment, copied into DDOS_CONFIG
LoadedConfig(e) ==
    [enabled |-> LoadedEnabled,
     windowSeconds |-> GetEnvNumber(e.windowSeconds, DefaultWindowSeconds),
     requestThreshold |-> GetEnvNumber(e.requestThreshold, DefaultRequestThreshold),
     blockThreshold |-> GetEnvNumber(e.blockThreshold, DefaultBlockThreshold),
     blockDuration |-> GetEnvNumber(e.blockDuration, DefaultBlockDuration)]

Settings == {"windowSeconds", "requestThreshold", "blockThreshold", "blockDuration"}

\* the texts DDOS_ENABLED may hold ("" when it is not set)
FlagValues == {"", "true", "false"}

\* process.env with the given texts
Environment(texts, flag) ==
    [k \in Settings \cup {"enabled"} |-> IF k = "enabled" THEN flag ELSE texts[k]]

\* no DDOS_* variable is set
NoEnv == Environment([f \in Settings |-> << >>], "")

\* the environments a process may start in: of the four numbers no variable
\* but one is set
Environments ==
    {Environment(texts, flag) :
        texts \in {t \in [Settings -> EnvValues] :
                     \E f \in Settings : \A g \in Settings \ {f} : t[g] = << >>},
        flag \in FlagValues}

\* every setting is a positive number
Valid(c) == \A f \in Settings : ~IsNaN(c[f]) /\ c[f] > 0

\* the arguments updateDDoSConfig is called with: the switch, or one setting
PatchValues == {0, NaN}

SettingPatches == UNION {{(f :> v) : v \in PatchValues} : f \in Settings}

\* Object.assign(DDOS_CONFIG, config)
UpdateDDoSConfigValue(c, patch) ==
    [k \in DOMAIN c |-> IF k \in DOMAIN patch THEN patch[k] ELSE c[k]]

----------------------------------------------------------------------------
(* checkDDoSInMemory *)

\* tracker && currentTime - tracker.firstRequest > windowMs
\* (a comparison with NaN is false)
WindowExpired(tracker, currentTime, windowMs) ==
    ~IsNaN(windowMs) /\ currentTime - tracker.firstRequest > windowMs

\* slip: the new record already counts the request that the increment counts
NewTrackerCountsTwice(currentTime) ==
    [count |-> 1, firstRequest |-> currentTime, blocked |-> FALSE]

\* tracker = { count: 0, firstRequest: currentTime, blocked: false }
NewTracker(currentTime) ==
    [count |-> 0, firstRequest |-> currentTime, blocked |-> FALSE]

\* slip: blocks only above the threshold
ThresholdExceededStrict(count, c) == count > c.blockThreshold

\* tracker.count >= DDOS_CONFIG.blockThreshold
ThresholdExceeded(count, c) ==
    ~IsNaN(c.blockThreshold) /\ count >= c.blockThreshold

\* slip: flags only above the threshold
SuspiciousStrict(count, c) == count > c.requestThreshold

\* const suspicious = tracker.count >= DDOS_CONFIG.requestThreshold
Suspicious(count, c) ==
    ~IsNaN(c.requestThreshold) /\ count >= c.requestThreshold

\* slip: requestTracker.clear() where one record is to be dropped
MapClear(m, ip) == << >>

\* requestTracker.delete(ip)
MapDelete(m, ip) == [k \in DOMAIN m \ {ip} |-> m[k]]

\* requestTracker.set(ip, tracker)
MapSet(m, ip, v) == [k \in DOMAIN m \cup {ip} |-> IF k = ip THEN v ELSE m[k]]

\* the record the evaluation works on after the clean-up and the initialisation
LiveTracker(m, ip, currentTime, windowMs) ==
    IF ip \in DOMAIN m /\ ~WindowExpired(m[ip], currentTime, windowMs)
    THEN m[ip]
    ELSE NewTracker(currentTime)

\* TRUE when the evaluation starts a new record (none, or the old one expired)
StartsFresh(m, ip, currentTime, windowMs) ==
    ip \notin DOMAIN m \/ WindowExpired(m[ip], currentTime, windowMs)

\* slip: the count goes up when the record is created and again when the
\* request is counted
IncrementedTwice(tracker) == [tracker EXCEPT !.count = @ + 2]

\* tracker.count++ on a record that is not blocked
Incremented(tracker) == [tracker EXCEPT !.count = @ + 1]

\* setTimeout(() => requestTracker.delete(ip), DDOS_CONFIG.blockDuration * 1000)
\* (a delay that is NaN or not positive makes the callback due at once)
BlockTimer(ip, c) ==
    [ip |-> ip,
     due |-> IF IsNaN(c.blockDuration) \/ c.blockDuration <= 0
             THEN Now
             ELSE Now + c.blockDuration * MsPerSecond]

\* The whole function: the map after the call, the timers it scheduled and
\* the value it returns.
CheckDDoSInMemory(m, ip, currentTime, windowMs, c) ==
    LET tracker == LiveTracker(m, ip, currentTime, windowMs)
    IN  IF tracker.blocked
        THEN [map    |-> MapSet(m, ip, tracker),
              timers |-> EmptyBag,
              counted |-> FALSE,
              result |-> [blocked |-> TRUE, suspicious |-> FALSE,
                          count |-> tracker.count]]
        ELSE LET t1 == Incremented(tracker)
             IN  IF ThresholdExceeded(t1.count, c)
                 THEN [map    |-> MapSet(m, ip, [t1 EXCEPT !.blocked = TRUE]),
                       timers |-> SetToBag({BlockTimer(ip, c)}),
                       counted |-> TRUE,
                       result |-> [blocked |-> TRUE, suspicious |-> FALSE,
                                   count |-> t1.count]]
                 ELSE [map    |-> MapSet(m, ip, t1),
                       timers |-> EmptyBag,
                       counted |-> TRUE,
                       result |-> [blocked |-> FALSE,
                                   suspicious |-> Suspicious(t1.count, c),
                                   count |-> t1.count]]

----------------------------------------------------------------------------
(* The shared store (Redis), as the middleware uses it *)

NoTtl == -1

\* const blockKey = `ddos:block:${ip}`
BlockKey(ip) == <<"ddos:block", ip>>

\* const countKey = `ddos:count:${ip}`
CountKey(ip) == <<"ddos:count", ip>>

\* a key is gone once the store's time is past its expiry time
Purge(st, nowMs) ==
    [k \in {x \in DOMAIN st : st[x].expiresAt = NoTtl \/ st[x].expiresAt >= nowMs}
        |-> st[k]]

\* slip: the block is looked up under a key that is never written
StoreGetOtherKey(st, key) == <<"ddos:blocked", key[2]>> \in DOMAIN st

\* GET key: truthy when the key exists
StoreGet(st, key) == key \in DOMAIN st

\* slip: the count is written with SET instead of being incremented
StoreIncrOverwrites(st, key) ==
    MapSet(st, key, [value |-> 1, expiresAt |-> NoTtl, since |-> Now])

\* INCR key: a missing key starts at 0 and has no expiry; an expiry stays
StoreIncr(st, key) ==
    IF key \in DOMAIN st
    THEN MapSet(st, key, [st[key] EXCEPT !.value = @ + 1])
    ELSE MapSet(st, key, [value |-> 1, expiresAt |-> NoTtl, since |-> Now])

\* EXPIRE key seconds: no effect on a missing key
StoreExpire(st, key, seconds) ==
    IF key \in DOMAIN st
    THEN MapSet(st, key, [st[key] EXCEPT !.expiresAt = Now + seconds * MsPerSecond])
    ELSE st

\* SETEX key seconds '1'
StoreSetEx(st, key, seconds) ==
    MapSet(st, key, [value |-> 1, expiresAt |-> Now + seconds * MsPerSecond,
                     since |-> Now])

----------------------------------------------------------------------------
(* What the middleware does with a classification *)

\* slip: no `return` after the 429 response, so next() is reached as well
RespondFallsThrough(result) ==
    IF result.blocked
    THEN [next |-> 1, status |-> TooManyRequests, code |-> "DDOS_DETECTED",
          warn |-> 0, error |-> 1]
    ELSE [next |-> 1, status |-> 0, code |-> "",
          warn |-> IF result.suspicious THEN 1 ELSE 0, error |-> 0]

\* if (result.blocked) { logger.error(...); res.status(429).json(...); return; }
\* if (result.suspicious) { logger.warn(...) }  next();
Respond(result) ==
    IF result.blocked
    THEN [next |-> 0, status |-> TooManyRequests, code |-> "DDOS_DETECTED",
          warn |-> 0, error |-> 1]
    ELSE [next |-> 1, status |-> 0, code |-> "",
          warn |-> IF result.suspicious THEN 1 ELSE 0, error |-> 0]

\* if (!DDOS_CONFIG.enabled) { return next(); }
PassThrough ==
    [next |-> 1, status |-> 0, code |-> "", warn |-> 0, error |-> 0]

\* the tracker record of an identifier, as a value that always has a shape
TrackerOf(m, id) ==
    IF id \in DOMAIN m
    THEN [has |-> TRUE, count |-> m[id].count,
          firstRequest |-> m[id].firstRequest, blocked |-> m[id].blocked]
    ELSE [has |-> FALSE, count |-> 0, firstRequest |-> Never, blocked |-> FALSE]

NoTrig == [at |-> Never, by |-> "none"]

NoPre == [has |-> FALSE, count |-> 0, firstRequest |-> Never, blocked |-> FALSE]

\* One handled request as the outside sees it: the classification, the calls
\* of next(), the response written and the events logged; with it, for the
\* properties, the moment it was evaluated (at), the record it found (pre) and
\* left (post), the timers it scheduled (sched), its rank in the window (n),
\* the block in force when it arrived (preTrig) and the store call that failed
\* during it (fault).
Observation(id, path, fault, at, result, effects, pre, post, sched, n, trig) ==
    [ip |-> id, path |-> path, fault |-> fault, at |-> at, sched |-> sched,
     blocked |-> result.blocked, suspicious |-> result.suspicious,
     count |-> result.count,
     next |-> effects.next, status |-> effects.status, code |-> effects.code,
     warn |-> effects.warn, error |-> effects.error,
     pre |-> pre, post |-> post, n |-> n, preTrig |-> trig]

NoResult == [blocked |-> FALSE, suspicious |-> FALSE, count |-> 0]

NoObservation ==
    Observation("", "init", "none", Never, NoResult,
                [next |-> 0, status |-> 0, code |-> "", warn |-> 0, error |-> 0],
                NoPre, NoPre, 0, 0, NoTrig)

\* history of the window: the request is the n-th against the live record
SeenAfter(m, sn, id, currentTime, windowMs) ==
    IF StartsFresh(m, id, currentTime, windowMs) THEN 1
    ELSE IF sn[id] < MaxRequestThreshold THEN sn[id] + 1 ELSE sn[id]

\* history of the block: set when a block is triggered, cleared by the first
\* request that arrives after blockDuration has elapsed since
BlockOver(trig, id, at, c) ==
    trig[id].at # Never /\ at > trig[id].at + c.blockDuration * MsPerSecond

TrigAfter(trig, id, path, blocking, at, c) ==
    IF blocking THEN [at |-> Now, by |-> path]
    ELSE IF BlockOver(trig, id, at, c) THEN NoTrig
    ELSE trig[id]

\* history of the requests passed on: the request handled in this step, if
\* it reached next(), is added to the current second (up to MaxBlockThreshold)
PassLogged ==
    passed' = IF passed = << >> \/ last'.next # 1
              THEN passed
              ELSE [passed EXCEPT ![last'.ip][clock] =
                                     IF @ < MaxBlockThreshold THEN @ + 1 ELSE @]

----------------------------------------------------------------------------
(* The refresh tokens of AuthService (src/src/services/kafka.ts) *)

Users == {"u1", "u2"}

\* the header jwt.sign puts in front of every token it signs with the
\* options of generateRefreshToken (expiresIn only): {"alg":"HS256","typ":"JWT"}
\* in base64url. A token is a sequence of characters; the payload and the
\* signature, which follow the header, are kept as one symbol each.
JwtHeader ==
    <<"e", "y", "J", "h", "b", "G", "c", "i", "O", "i", "J", "I",
      "U", "z", "I", "1", "N", "i", "I", "s", "I", "n", "R", "5",
      "c", "C", "I", "6", "I", "k", "p", "X", "V", "C", "J", "9">>

PayloadAt == Len(JwtHeader) + 2
SignatureAt == Len(JwtHeader) + 4

Hmac(payload) == <<"hmac", payload.userId, payload.iat>>

\* jwt.sign(payload, refreshTokenSecret, {expiresIn})
GenerateRefreshToken(userId, iat) ==
    JwtHeader \o <<".", [userId |-> userId, iat |-> iat], ".",
                   Hmac([userId |-> userId, iat |-> iat])>>

\* a token that was not signed with the secret
ForgedToken(userId) ==
    JwtHeader \o <<".", [userId |-> userId, iat |-> 0], ".",
                   <<"none", userId, 0>>>>

NoPayload == [userId |-> "", iat |-> -1]

\* jwt.verify: the payload if the signature is the service's, else null
\* (tokens do not expire within MaxIat seconds)
VerifyRefreshToken(token) ==
    IF token[SignatureAt] = Hmac(token[PayloadAt])
    THEN token[PayloadAt] ELSE NoPayload

\* Buffer.from(token).toString('base64'): three bytes give four characters;
\* each element of the result stands for four characters and holds the
\* (up to) three bytes they encode
Base64(bytes) ==
    [g \in 1..((Len(bytes) + Base64Bytes - 1) \div Base64Bytes) |->
        SubSeq(bytes, Base64Bytes * (g - 1) + 1,
               IF Base64Bytes * g < Len(bytes) THEN Base64Bytes * g
               ELSE Len(bytes))]

\* .substring(0, n) of a base64 text, n a multiple of four
Substring(groups, n) ==
    SubSeq(groups, 1,
           IF n \div Base64Chars < Len(groups) THEN n \div Base64Chars
           ELSE Len(groups))

HashToken(token) == Substring(Base64(token), HashChars)

RefreshKey(userId, token) == <<"refresh_token", userId, HashToken(token)>>

\* redisService.set(key, '1', ttl); the seven days of the ttl do not pass
StoreRefreshToken(a, userId, token) ==
    IF ~a.enabled THEN a.keys
    ELSE a.keys \cup {RefreshKey(userId, token)}

ValidateRefreshToken(a, userId, token) ==
    IF ~a.enabled THEN TRUE
    ELSE RefreshKey(userId, token) \in a.keys

RemoveRefreshToken(a, userId, token) ==
    IF ~a.enabled THEN a.keys
    ELSE a.keys \ {RefreshKey(userId, token)}

NoCall == [op |-> "none", token |-> << >>, ok |-> FALSE,
           wasIssued |-> FALSE, wasSpent |-> FALSE]

\* enabled: redisService.isEnabled();  now: the second jwt.sign stamps (iat);
\* keys: the refresh_token keys of the store;  issued, spent (history): the
\* refresh tokens handed out, and those used or logged out since they were;
\* call (observation): the latest call of the service
NoSessions ==
    [enabled |-> TRUE, now |-> 0, keys |-> {}, issued |-> {}, spent |-> {},
     call |-> NoCall]

Called(a, op, token, ok) ==
    [op |-> op, token |-> token, ok |-> ok,
     wasIssued |-> token \in a.issued, wasSpent |-> token \in a.spent]

\* login of an active user with the right password
LoginAs(a, userId) ==
    LET token == GenerateRefreshToken(userId, a.now)
    IN  [a EXCEPT !.keys = StoreRefreshToken(a, userId, token),
                  !.issued = @ \cup {token},
                  !.spent = @ \ {token},
                  !.call = Called(a, "login", token, TRUE)]

RefreshedWith(a, refreshToken) ==
    LET payload == VerifyRefreshToken(refreshToken)
        token == GenerateRefreshToken(payload.userId, a.now)
        removed == [a EXCEPT !.keys =
                        RemoveRefreshToken(a, payload.userId, refreshToken)]
    IN  IF payload = NoPayload
             \/ ~ValidateRefreshToken(a, payload.userId, refreshToken)
        THEN [a EXCEPT !.call = Called(a, "refresh", refreshToken, FALSE)]
        ELSE [a EXCEPT !.keys = StoreRefreshToken(removed, payload.userId, token),
                       !.issued = @ \cup {token},
                       !.spent = (@ \cup {refreshToken}) \ {token},
                       !.call = Called(a, "refresh", refreshToken, TRUE)]

LoggedOut(a, userId, refreshToken) ==
    [a EXCEPT !.keys = RemoveRefreshToken(a, userId, refreshToken),
              !.spent = IF VerifyRefreshToken(refreshToken).userId = userId
                        THEN @ \cup {refreshToken} ELSE @,
              !.call = Called(a, "logout", refreshToken, TRUE)]

----------------------------------------------------------------------------
(* The log transport (src/src/services/database-transport.ts) *)

\* buffer: the entries waiting, each the number of the log() call that made
\* it;  flushInterval: the interval timer is set;  flights: the batches of
\* the flush() calls waiting for createMany;  rows: the log table, in the
\* order of insertion;  logged: the log() calls so far
NewTransport ==
    [buffer |-> << >>, flushInterval |-> TRUE, flights |-> {}, rows |-> << >>,
     logged |-> 0]

\* flush() up to its await: the buffer is copied and emptied
Flush(t) ==
    IF Len(t.buffer) = 0 THEN t
    ELSE [t EXCEPT !.flights = @ \cup {t.buffer}, !.buffer = << >>]

Log(t) ==
    LET pushed == [t EXCEPT !.buffer = Append(@, t.logged + 1),
                            !.logged = @ + 1]
    IN  IF Len(pushed.buffer) >= batchSize THEN Flush(pushed) ELSE pushed

\* createMany resolved: the rows are in the table
Inserted(t, logsToInsert) ==
    [t EXCEPT !.rows = @ \o logsToInsert, !.flights = @ \ {logsToInsert}]

\* createMany rejected: buffer.unshift(...logsToInsert)
InsertFailed(t, logsToInsert) ==
    [t EXCEPT !.buffer = logsToInsert \o @, !.flights = @ \ {logsToInsert}]

Close(t) == Flush([t EXCEPT !.flushInterval = FALSE])

----------------------------------------------------------------------------
(* The synchronous middleware (src/src/middleware/ddos-detector.ts) *)

Init ==
    /\ passed = << >>
    /\ env = NoEnv
    /\ auth = NoSessions
    /\ transport = NewTransport
    /\ clock = 0
    /\ cfg \in {c \in Configs : c.enabled = LoadedEnabled}
    /\ requestTracker = << >>
    /\ timers = EmptyBag
    /\ redisClient = FALSE
    /\ store = << >>
    /\ inflight = EmptyBag
    /\ faults = 0
    /\ twinTracker = << >>
    /\ twinTimers = EmptyBag
    /\ twinLast = NoObservation
    /\ overtaken = FALSE
    /\ seen = [i \in Ids |-> 0]
    /\ blockTrig = [i \in Ids |-> NoTrig]
    /\ last = NoObservation

\* slip: the enabled check comes after the tracking
DdosDetectorTracksWhenDisabled(m, c, id, currentTime) ==
    LET r == CheckDDoSInMemory(m, id, currentTime,
                               c.windowSeconds * MsPerSecond, c)
    IN  IF ~c.enabled
        THEN [path |-> "disabled", map |-> r.map, timers |-> r.timers,
              result |-> NoResult, effects |-> PassThrough]
        ELSE [path |-> "memory", map |-> r.map, timers |-> r.timers,
              result |-> r.result, effects |-> Respond(r.result)]

\* ddosDetector(req, res, next): the map and the timers it leaves, the
\* classification and what is done with it
DdosDetector(m, c, id, currentTime) ==
    IF ~c.enabled
    THEN [path |-> "disabled", map |-> m, timers |-> EmptyBag,
          result |-> NoResult, effects |-> PassThrough]
    ELSE LET r == CheckDDoSInMemory(m, id, currentTime,
                                    c.windowSeconds * MsPerSecond, c)
         IN  [path |-> "memory", map |-> r.map, timers |-> r.timers,
              result |-> r.result, effects |-> Respond(r.result)]

\* one request goes through the middleware
Request(ip) ==
    LET id == ClientIp(ip)
        currentTime == Now
        windowMs == cfg.windowSeconds * MsPerSecond
        d == DdosDetector(requestTracker, cfg, id, currentTime)
        n == IF cfg.enabled
             THEN SeenAfter(requestTracker, seen, id, currentTime, windowMs)
             ELSE seen[id]
    IN  /\ requestTracker' = d.map
        /\ timers' = timers (+) d.timers
        /\ seen' = [seen EXCEPT ![id] = n]
        /\ blockTrig' = [blockTrig EXCEPT
                           ![id] = IF cfg.enabled
                                   THEN TrigAfter(blockTrig, id, d.path,
                                                  d.timers # EmptyBag, currentTime, cfg)
                                   ELSE @]
        /\ last' = Observation(id, d.path, "none", currentTime, d.result, d.effects,
                               TrackerOf(requestTracker, id), TrackerOf(d.map, id),
                               BagCardinality(d.timers), n, blockTrig[id])
        /\ PassLogged
        /\ UNCHANGED <<restVars, clock, cfg, storeVars, twinVars>>

\* updateDDoSConfig({ enabled: b })
UpdateDDoSConfig(patch) ==
    /\ cfg' = UpdateDDoSConfigValue(cfg, patch)
    /\ cfg' # cfg
    /\ last' = NoObservation
    /\ PassLogged
    /\ UNCHANGED <<restVars, clock, requestTracker, timers, storeVars, twinVars, seen, blockTrig>>

\* the callback of a block's setTimeout runs
TimerFire ==
    \E t \in BagToSet(timers) :
        /\ t.due <= Now
        /\ timers' = timers (-) SetToBag({t})
        /\ requestTracker' = MapDelete(requestTracker, t.ip)
        /\ seen' = [seen EXCEPT ![t.ip] = 0]
        /\ last' = NoObservation
        /\ PassLogged
        /\ UNCHANGED <<restVars, clock, cfg, storeVars, twinVars, blockTrig>>

\* a second passes; callbacks that are due run before the clock moves on,
\* and the store drops the keys whose time has come
Elapse ==
    /\ clock < MaxClock
    /\ \A t \in BagToSet(timers) : t.due > Now
    /\ clock' = clock + 1
    /\ store' = Purge(store, (clock + 1) * MsPerSecond)
    /\ last' = NoObservation
    /\ PassLogged
    /\ UNCHANGED <<restVars, cfg, requestTracker, timers, redisClient, inflight,
                   faults, seen, blockTrig>>

Tick ==
    /\ Elapse
    /\ UNCHANGED twinVars

Next ==
    \/ \E ip \in Ips : Request(ip)
    \/ \E b \in BOOLEAN : UpdateDDoSConfig([enabled |-> b])
    \/ TimerFire
    \/ Tick

Spec == Init /\ [][Next]_vars

\* SpecFair: the same steps; the event loop runs every timer callback that
\* is due and time goes on. Nothing obliges a client to send a request.
SpecFair == Spec /\ WF_vars(TimerFire) /\ WF_vars(Tick)

\* SpecPair: the synchronous middleware, enabled, with requests from a client
\* with an address and from clients whose address is not available
InitPair ==
    /\ passed = << >>
    /\ env = NoEnv
    /\ auth = NoSessions
    /\ transport = NewTransport
    /\ clock = 0
    /\ cfg \in {c \in Configs : /\ c.enabled
                                /\ c.windowSeconds = MaxWindowSeconds
                                /\ c.blockDuration <= 2
                                /\ c.requestThreshold <= 2
                                /\ c.blockThreshold <= 2}
    /\ requestTracker = << >>
    /\ timers = EmptyBag
    /\ redisClient = FALSE
    /\ store = << >>
    /\ inflight = EmptyBag
    /\ faults = 0
    /\ twinTracker = << >>
    /\ twinTimers = EmptyBag
    /\ twinLast = NoObservation
    /\ overtaken = FALSE
    /\ seen = [i \in Ids |-> 0]
    /\ blockTrig = [i \in Ids |-> NoTrig]
    /\ last = NoObservation

NextPair ==
    \/ \E ip \in AllIps : Request(ip)
    \/ TimerFire
    \/ Tick

SpecPair == InitPair /\ [][NextPair]_vars

\* SpecSliding: the synchronous middleware, enabled, with the history of the
\* requests it passed on
InitSliding ==
    /\ passed = [i \in Ids |-> [t \in 0 .. MaxClock |-> 0]]
    /\ env = NoEnv
    /\ auth = NoSessions
    /\ transport = NewTransport
    /\ clock = 0
    /\ cfg \in {c \in Configs : c.enabled}
    /\ requestTracker = << >>
    /\ timers = EmptyBag
    /\ redisClient = FALSE
    /\ store = << >>
    /\ inflight = EmptyBag
    /\ faults = 0
    /\ twinTracker = << >>
    /\ twinTimers = EmptyBag
    /\ twinLast = NoObservation
    /\ overtaken = FALSE
    /\ seen = [i \in Ids |-> 0]
    /\ blockTrig = [i \in Ids |-> NoTrig]
    /\ last = NoObservation

NextSliding ==
    \/ \E ip \in Ips : Request(ip)
    \/ TimerFire
    \/ Tick

SpecSliding == InitSliding /\ [][NextSliding]_vars

\* SpecConfig: the synchronous middleware with the settings read from the
\* environment at start-up and changed by updateDDoSConfig
InitConfig ==
    /\ passed = << >>
    /\ clock = 0
    /\ env \in Environments
    /\ auth = NoSessions
    /\ transport = NewTransport
    /\ cfg = LoadedConfig(env)
    /\ requestTracker = << >>
    /\ timers = EmptyBag
    /\ redisClient = FALSE
    /\ store = << >>
    /\ inflight = EmptyBag
    /\ faults = 0
    /\ twinTracker = << >>
    /\ twinTimers = EmptyBag
    /\ twinLast = NoObservation
    /\ overtaken = FALSE
    /\ seen = [i \in Ids |-> 0]
    /\ blockTrig = [i \in Ids |-> NoTrig]
    /\ last = NoObservation

\* a request, while the record of its identifier has counted fewer than MaxCount
RequestCounted(ip) ==
    /\ ClientIp(ip) \in DOMAIN requestTracker
          => requestTracker[ClientIp(ip)].count < MaxCount
    /\ Request(ip)

\* updateDDoSConfig({ <setting>: v }), called before the first request on
\* settings that are positive numbers so far
UpdateSetting(patch) ==
    /\ Valid(cfg)
    /\ requestTracker = << >>
    /\ timers = EmptyBag
    /\ clock = 0
    /\ UpdateDDoSConfig(patch)

NextConfig ==
    \/ \E ip \in Ips : RequestCounted(ip)
    \/ \E b \in BOOLEAN : UpdateDDoSConfig([enabled |-> b])
    \/ \E patch \in SettingPatches : UpdateSetting(patch)
    \/ TimerFire
    \/ Tick

SpecConfig == InitConfig /\ [][NextConfig]_vars

----------------------------------------------------------------------------
(* The asynchronous middleware with the shared store (src/unnamed/part_004) *)

\* the store's keys of an identifier, in the shape of a tracker record
StoreView(st, id) ==
    [has |-> CountKey(id) \in DOMAIN st,
     count |-> IF CountKey(id) \in DOMAIN st THEN st[CountKey(id)].value ELSE 0,
     firstRequest |-> Never,
     blocked |-> BlockKey(id) \in DOMAIN st]

\* slip: `return checkDDoSWithRedis(ip)` without the await: only what
\* getClient() throws lands in the catch block
CaughtWithoutAwait(step) == step \in {"client"}

\* checkDDoS: try { getClient(); return await checkDDoSWithRedis() } catch {}
\* a throw at any of these steps lands in the catch block
CaughtByCheckDDoS(step) == step \in {"client", "get", "incr", "expire", "setEx"}

\* ddosDetector's .catch: logger.error('DDoS detection error:'); next()
DetectorCatch ==
    [next |-> 1, status |-> 0, code |-> "", warn |-> 0, error |-> 1]

InitStore ==
    /\ passed = << >>
    /\ env = NoEnv
    /\ auth = NoSessions
    /\ transport = NewTransport
    /\ clock = 0
    /\ cfg \in {c \in Configs : c.enabled}
    /\ requestTracker = << >>
    /\ timers = EmptyBag
    /\ redisClient \in BOOLEAN
    /\ store = << >>
    /\ inflight = EmptyBag
    /\ faults = 0
    /\ twinTracker = << >>
    /\ twinTimers = EmptyBag
    /\ twinLast = NoObservation
    /\ overtaken = FALSE
    /\ seen = [i \in Ids |-> 0]
    /\ blockTrig = [i \in Ids |-> NoTrig]
    /\ last = NoObservation

\* the evaluation ends in checkDDoSInMemory (the fallback) and the .then
\* handler applies the classification
InMemoryStep(id, currentTime, fault) ==
    LET windowMs == cfg.windowSeconds * MsPerSecond
        r == CheckDDoSInMemory(requestTracker, id, currentTime, windowMs, cfg)
        n == SeenAfter(requestTracker, seen, id, currentTime, windowMs)
    IN  /\ requestTracker' = r.map
        /\ timers' = timers (+) r.timers
        /\ seen' = [seen EXCEPT ![id] = n]
        /\ blockTrig' = [blockTrig EXCEPT
                           ![id] = TrigAfter(blockTrig, id, "memory",
                                             r.timers # EmptyBag, currentTime, cfg)]
        /\ last' = Observation(id, "memory", fault, currentTime, r.result,
                               Respond(r.result), TrackerOf(requestTracker, id),
                               TrackerOf(r.map, id), BagCardinality(r.timers),
                               n, blockTrig[id])

\* a rejection nothing in checkDDoS catches reaches ddosDetector's .catch
CatchStep(id, currentTime, fault) ==
    /\ last' = Observation(id, "catch", fault, currentTime, NoResult,
                           DetectorCatch, TrackerOf(requestTracker, id),
                           TrackerOf(requestTracker, id), 0, seen[id],
                           blockTrig[id])
    /\ UNCHANGED <<requestTracker, timers, seen, blockTrig>>

\* slip: the catch block of checkDDoS rethrows instead of going on in memory
FailureRethrown(id, currentTime, step) == CatchStep(id, currentTime, step)

\* a store call of the evaluation throws at `step`
Failure(id, currentTime, step) ==
    IF CaughtByCheckDDoS(step)
    THEN InMemoryStep(id, currentTime, step)
    ELSE CatchStep(id, currentTime, step)

\* checkDDoSWithRedis returns `result`; the .then handler applies it
RedisDone(e, result, st, blocking) ==
    /\ blockTrig' = [blockTrig EXCEPT
                       ![e.ip] = TrigAfter(blockTrig, e.ip, "redis", blocking,
                                           e.currentTime, cfg)]
    /\ last' = Observation(e.ip, "redis", "none", e.currentTime, result,
                           Respond(result), StoreView(store, e.ip),
                           StoreView(st, e.ip), 0, 0, blockTrig[e.ip])
    /\ UNCHANGED <<requestTracker, timers, seen>>

Suspend(e, pc, count) ==
    /\ inflight' = (inflight (-) SetToBag({e}))
                     (+) SetToBag({[e EXCEPT !.pc = pc, !.count = count]})
    /\ last' = NoObservation
    /\ UNCHANGED <<requestTracker, timers, seen, blockTrig>>

Resume(e) == inflight' = inflight (-) SetToBag({e})

\* after the increment (and the expiry): block, or classify by the count
AfterCount(e, count, st) ==
    IF ThresholdExceeded(count, cfg)
    THEN Suspend(e, "setEx", count)
    ELSE /\ Resume(e)
         /\ RedisDone(e, [blocked |-> FALSE,
                          suspicious |-> Suspicious(count, cfg),
                          count |-> count], st, FALSE)

\* the outcome of one store call; failures are counted up to MaxFaults
Faulty(outcome) ==
    IF outcome = "ok" THEN faults' = faults
    ELSE faults < MaxFaults /\ faults' = faults + 1

\* ddosDetector(req, res, next) while RedisService.client is not set:
\* getClient() throws, checkDDoS goes on in memory
ArriveNoClient(ip) ==
    /\ ~redisClient
    /\ Failure(ClientIp(ip), Now, "client")
    /\ PassLogged
    /\ UNCHANGED <<restVars, clock, cfg, storeVars, twinVars>>

\* ddosDetector(req, res, next) with a client: the evaluation suspends at
\* client.get(blockKey); at most `limit` evaluations are suspended at a time
ArriveWithClient(ip, limit) ==
    /\ redisClient
    /\ BagCardinality(inflight) < limit
    /\ inflight' = inflight (+) SetToBag({[pc |-> "get", ip |-> ClientIp(ip),
                                           currentTime |-> Now, count |-> 0]})
    /\ last' = NoObservation
    /\ PassLogged
    /\ UNCHANGED <<restVars, clock, cfg, requestTracker, timers, redisClient, store,
                   faults, twinVars, seen, blockTrig>>

\* const isBlocked = await client.get(blockKey)
AwaitGet ==
    \E e \in BagToSet(inflight) : \E outcome \in {"ok", "fail"} :
        /\ e.pc = "get"
        /\ Faulty(outcome)
        /\ store' = store
        /\ IF outcome = "fail"
           THEN Resume(e) /\ Failure(e.ip, e.currentTime, "get")
           ELSE IF StoreGet(store, BlockKey(e.ip))
           THEN /\ Resume(e)
                /\ RedisDone(e, [blocked |-> TRUE, suspicious |-> FALSE,
                                 count |-> 0], store, FALSE)
           ELSE Suspend(e, "incr", 0)
        /\ PassLogged
        /\ UNCHANGED <<restVars, clock, cfg, redisClient, twinVars>>

\* const count = await client.incr(countKey)
\* ("lost": the store ran the command, the reply did not arrive)
AwaitIncr ==
    \E e \in BagToSet(inflight) : \E outcome \in {"ok", "fail", "lost"} :
        LET st == StoreIncr(store, CountKey(e.ip))
            count == st[CountKey(e.ip)].value
        IN  /\ e.pc = "incr"
            /\ StoreView(store, e.ip).count < MaxStoreCount
            /\ Faulty(outcome)
            /\ store' = IF outcome = "fail" THEN store ELSE st
            /\ IF outcome # "ok"
               THEN Resume(e) /\ Failure(e.ip, e.currentTime, "incr")
               ELSE IF count = 1
               THEN Suspend(e, "expire", count)
               ELSE AfterCount(e, count, st)
            /\ PassLogged
            /\ UNCHANGED <<restVars, clock, cfg, redisClient, twinVars>>

\* await client.expire(countKey, DDOS_CONFIG.windowSeconds)
AwaitExpire ==
    \E e \in BagToSet(inflight) : \E outcome \in {"ok", "fail", "lost"} :
        LET st == StoreExpire(store, CountKey(e.ip), cfg.windowSeconds)
        IN  /\ e.pc = "expire"
            /\ Faulty(outcome)
            /\ store' = IF outcome = "fail" THEN store ELSE st
            /\ IF outcome # "ok"
               THEN Resume(e) /\ Failure(e.ip, e.currentTime, "expire")
               ELSE AfterCount(e, e.count, st)
            /\ PassLogged
            /\ UNCHANGED <<restVars, clock, cfg, redisClient, twinVars>>

\* await client.setEx(blockKey, DDOS_CONFIG.blockDuration, '1')
AwaitSetEx ==
    \E e \in BagToSet(inflight) : \E outcome \in {"ok", "fail", "lost"} :
        LET st == StoreSetEx(store, BlockKey(e.ip), cfg.blockDuration)
        IN  /\ e.pc = "setEx"
            /\ Faulty(outcome)
            /\ store' = IF outcome = "fail" THEN store ELSE st
            /\ Resume(e)
            /\ IF outcome # "ok"
               THEN Failure(e.ip, e.currentTime, "setEx")
               ELSE RedisDone(e, [blocked |-> TRUE, suspicious |-> FALSE,
                                  count |-> e.count], st, TRUE)
            /\ PassLogged
            /\ UNCHANGED <<restVars, clock, cfg, redisClient, twinVars>>

\* SpecStore: requests one after the other; a store call may take seconds
ArriveAlone(ip) == ArriveWithClient(ip, 1)

NextStore ==
    \/ \E ip \in Ips : ArriveNoClient(ip)
    \/ \E ip \in Ips : ArriveAlone(ip)
    \/ AwaitGet
    \/ AwaitIncr
    \/ AwaitExpire
    \/ AwaitSetEx
    \/ TimerFire
    \/ Tick

SpecStore == InitStore /\ [][NextStore]_vars

\* SpecStoreFair: the same steps; every store call is answered (or fails),
\* the event loop runs every timer callback that is due and time goes on
SpecStoreFair ==
    /\ SpecStore
    /\ WF_vars(AwaitGet)
    /\ WF_vars(AwaitIncr)
    /\ WF_vars(AwaitExpire)
    /\ WF_vars(AwaitSetEx)
    /\ WF_vars(TimerFire)
    /\ WF_vars(Tick)

\* SpecRace: up to MaxInFlight evaluations interleave at their store calls;
\* the store answers within the second
RaceConfigs ==
    {c \in Configs : /\ c.enabled
                     /\ c.windowSeconds = 2
                     /\ c.blockDuration \in {1, 2}
                     /\ c.requestThreshold \in {1, 2}
                     /\ c.blockThreshold \in {1, 2}}

InitRace ==
    /\ InitStore
    /\ cfg \in RaceConfigs
    /\ redisClient

ArriveConcurrent(ip) == ArriveWithClient(ip, MaxInFlight)

TickIdle ==
    /\ inflight = EmptyBag
    /\ Tick

NextRace ==
    \/ \E ip \in Ips : ArriveConcurrent(ip)
    \/ AwaitGet
    \/ AwaitIncr
    \/ AwaitExpire
    \/ AwaitSetEx
    \/ TimerFire
    \/ TickIdle

SpecRace == InitRace /\ [][NextRace]_vars

\* SpecHang: requests one after the other; the reply of a store call may
\* never come. Nothing in ddosDetector, checkDDoS or checkDDoSWithRedis bounds
\* an awaited store call, so an evaluation whose call hangs stays suspended.
InitHang ==
    /\ InitStore
    /\ cfg \in RaceConfigs
    /\ redisClient

\* the next request comes while the count key can still be counted up
ArriveBounded(ip) ==
    /\ StoreView(store, ClientIp(ip)).count < MaxStoreCount
    /\ ArriveAlone(ip)

\* the promise of the pending store call never settles
StoreCallHangs ==
    \E e \in BagToSet(inflight) :
        /\ e.pc \in {"get", "incr", "expire", "setEx"}
        /\ inflight' = (inflight (-) SetToBag({e}))
                         (+) SetToBag({[e EXCEPT !.pc = "hung"]})
        /\ last' = NoObservation
        /\ PassLogged
        /\ UNCHANGED <<restVars, clock, cfg, requestTracker, timers, redisClient, store,
                       faults, twinVars, seen, blockTrig>>

NextHang ==
    \/ \E ip \in Ips : ArriveBounded(ip)
    \/ AwaitGet
    \/ AwaitIncr
    \/ AwaitExpire
    \/ AwaitSetEx
    \/ StoreCallHangs
    \/ TimerFire
    \/ Tick

\* the event loop runs every continuation whose promise has settled, every
\* timer callback that is due, and time goes on
SpecHang ==
    /\ InitHang
    /\ [][NextHang]_vars
    /\ WF_vars(AwaitGet)
    /\ WF_vars(AwaitIncr)
    /\ WF_vars(AwaitExpire)
    /\ WF_vars(AwaitSetEx)
    /\ WF_vars(TimerFire)
    /\ WF_vars(Tick)

\* SpecTwin: the same timed requests go to two processes. The first has a
\* client whose every call raises; the second has no client (getClient()
\* throws). Block timers of the two that are due together run together.
InitTwin ==
    /\ InitStore
    /\ redisClient

\* checkDDoS in the process without a client: getClient() throws at once
TwinEvaluate(m, id, currentTime) ==
    LET r == CheckDDoSInMemory(m, id, currentTime,
                               cfg.windowSeconds * MsPerSecond, cfg)
    IN  IF CaughtByCheckDDoS("client")
        THEN [map |-> r.map, timers |-> r.timers,
              obs |-> Observation(id, "memory", "client", currentTime, r.result,
                                  Respond(r.result), TrackerOf(m, id),
                                  TrackerOf(r.map, id), BagCardinality(r.timers),
                                  0, NoTrig)]
        ELSE [map |-> m, timers |-> EmptyBag,
              obs |-> Observation(id, "catch", "client", currentTime, NoResult,
                                  DetectorCatch, TrackerOf(m, id),
                                  TrackerOf(m, id), 0, 0, NoTrig)]

\* a request reaches both processes: the second classifies it, the first
\* suspends at client.get(blockKey)
TwinArrive(ip) ==
    LET id == ClientIp(ip)
        t == TwinEvaluate(twinTracker, id, Now)
    IN  /\ redisClient
        /\ inflight = EmptyBag
        /\ inflight' = SetToBag({[pc |-> "get", ip |-> id,
                                  currentTime |-> Now, count |-> 0]})
        /\ twinTracker' = t.map
        /\ twinTimers' = twinTimers (+) t.timers
        /\ twinLast' = t.obs
        /\ last' = NoObservation
        /\ PassLogged
        /\ UNCHANGED <<restVars, clock, cfg, requestTracker, timers, redisClient, store,
                       faults, overtaken, seen, blockTrig>>

\* await client.get(blockKey) raises in the first process
TwinGetRaises ==
    \E e \in BagToSet(inflight) :
        /\ e.pc = "get"
        /\ Resume(e)
        /\ Failure(e.ip, e.currentTime, "get")
        /\ PassLogged
        /\ UNCHANGED <<restVars, clock, cfg, redisClient, store, faults, twinVars>>

\* the callbacks of the block timers due for an identifier run, in both
\* processes
TwinTimerFire ==
    \E t \in BagToSet(timers) \cup BagToSet(twinTimers) :
        LET here == t \in BagToSet(timers)
            there == t \in BagToSet(twinTimers)
        IN  /\ t.due <= Now
            /\ timers' = IF here THEN timers (-) SetToBag({t}) ELSE timers
            /\ requestTracker' = IF here THEN MapDelete(requestTracker, t.ip)
                                 ELSE requestTracker
            /\ seen' = IF here THEN [seen EXCEPT ![t.ip] = 0] ELSE seen
            /\ twinTimers' = IF there THEN twinTimers (-) SetToBag({t})
                             ELSE twinTimers
            /\ twinTracker' = IF there THEN MapDelete(twinTracker, t.ip)
                              ELSE twinTracker
            /\ overtaken' = (overtaken \/ inflight # EmptyBag)
            /\ last' = NoObservation
            /\ PassLogged
            /\ UNCHANGED <<restVars, clock, cfg, storeVars, twinLast, blockTrig>>

TwinTick ==
    /\ \A t \in BagToSet(twinTimers) : t.due > Now
    /\ Elapse
    /\ overtaken' = (overtaken \/ inflight # EmptyBag)
    /\ UNCHANGED <<twinTracker, twinTimers, twinLast>>

NextTwin ==
    \/ \E ip \in Ips : TwinArrive(ip)
    \/ TwinGetRaises
    \/ TwinTimerFire
    \/ TwinTick

SpecTwin == InitTwin /\ [][NextTwin]_vars

\* SpecBoth: the same requests, one after the other, reach a process that
\* uses the store and a process that tracks locally (no client). A second
\* passes only while no store call is pending.
BothTick ==
    /\ inflight = EmptyBag
    /\ TwinTick

NextBoth ==
    \/ \E ip \in Ips : TwinArrive(ip)
    \/ AwaitGet
    \/ AwaitIncr
    \/ AwaitExpire
    \/ AwaitSetEx
    \/ TwinTimerFire
    \/ BothTick

SpecBoth == InitTwin /\ [][NextBoth]_vars

----------------------------------------------------------------------------
(* Properties of the synchronous middleware *)

Rejected429(o) ==
    /\ o.blocked
    /\ o.error = 1
    /\ o.status = TooManyRequests
    /\ o.code = "DDOS_DETECTED"
    /\ o.next = 0

PassedOn(o) ==
    /\ ~o.blocked
    /\ o.next = 1
    /\ o.status = 0
    /\ o.code = ""
    /\ o.error = 0

\* C1: under a configuration with 1 <= requestThreshold <= blockThreshold the
\* request that brings an identifier's count to blockThreshold is blocked:
\* one error event, a 429 response with code DDOS_DETECTED, and the next
\* stage is not invoked.
C1_BlockAtThreshold ==
    (/\ last.path = "memory"
     /\ Ordered(cfg)
     /\ last.post # last.pre
     /\ last.post.count = cfg.blockThreshold)
        => Rejected429(last)

C1_Witness ==
    /\ last.path = "memory"
    /\ cfg.requestThreshold < cfg.blockThreshold
    /\ last.pre.has
    /\ last.pre.count = cfg.blockThreshold - 1
    /\ last.post.count = cfg.blockThreshold
    /\ Rejected429(last)

\* C2 (as claimed): a request of an identifier that arrives less than
\* blockDuration seconds after the identifier's block was triggered is blocked.
C2_BlockedForDuration ==
    (/\ last.path = "memory"
     /\ last.preTrig.by = "memory"
     /\ last.preTrig.at <= last.at
     /\ last.at < last.preTrig.at + cfg.blockDuration * MsPerSecond)
        => (last.blocked /\ last.status = TooManyRequests /\ last.next = 0)

\* C3: a request whose resulting count c has requestThreshold <= c <
\* blockThreshold is passed on with exactly one warning event; a request with
\* c < requestThreshold emits no warning.
C3_SuspiciousBand ==
    (last.path = "memory")
        => /\ (/\ cfg.requestThreshold <= last.post.count
               /\ last.post.count < cfg.blockThreshold)
                  => (PassedOn(last) /\ last.suspicious /\ last.warn = 1)
           /\ (last.post.count < cfg.requestThreshold) => (last.warn = 0)

C3_Witness ==
    /\ last.path = "memory"
    /\ last.post.count > cfg.requestThreshold
    /\ last.post.count < cfg.blockThreshold
    /\ last.suspicious
    /\ last.warn = 1
    /\ last.next = 1

\* C4 (as claimed): the N-th request of a window with N < requestThreshold is
\* allowed: the next stage is invoked, no response is written, no warning or
\* error event.
C4_AllowedBelowThreshold ==
    (last.path = "memory" /\ last.n < cfg.requestThreshold)
        => (PassedOn(last) /\ ~last.suspicious /\ last.warn = 0)

\* C4 (amended): under a configuration with requestThreshold <= blockThreshold
\* the N-th request of a window with N < requestThreshold is allowed: the next
\* stage is invoked, no response is written, no warning or error event.
C4_AllowedBelowBothThresholds ==
    (last.path = "memory" /\ Ordered(cfg) /\ last.n < cfg.requestThreshold)
        => (PassedOn(last) /\ ~last.suspicious /\ last.warn = 0)

C4_Witness ==
    /\ last.path = "memory"
    /\ last.n = 2
    /\ cfg.requestThreshold = 3
    /\ PassedOn(last)
    /\ last.count = 2

\* C6 (as claimed): when at least windowSeconds have elapsed since the
\* windowStart of a record that is not blocked, the next request resets the
\* count to 1 and is allowed. (requestThreshold > 1, so that a count of 1 is
\* below both thresholds.)
C6_ResetAtWindowEnd ==
    (/\ last.path = "memory"
     /\ cfg.requestThreshold > 1
     /\ last.pre.has
     /\ ~last.pre.blocked
     /\ last.at - last.pre.firstRequest >= cfg.windowSeconds * MsPerSecond)
        => (last.post.count = 1 /\ last.count = 1
            /\ PassedOn(last) /\ ~last.suspicious)

\* C8: with enabled = false a request is passed on, no event is emitted, the
\* tracking map is left as it was and no timer is scheduled.
C8_DisabledIsNoOp ==
    (last.path = "disabled")
        => /\ last.next = 1
           /\ last.status = 0
           /\ last.warn = 0
           /\ last.error = 0
           /\ last.post = last.pre
           /\ last.sched = 0

C8_Witness ==
    /\ last.path = "disabled"
    /\ ~cfg.enabled
    /\ last.pre.has
    /\ last.pre.blocked
    /\ timers # EmptyBag
    /\ last.next = 1

----------------------------------------------------------------------------
(* Properties of the asynchronous middleware *)

\* C5 (as claimed, store-backed path): the first request of an identifier
\* that arrives after blockDuration has elapsed since its block was triggered
\* starts a fresh window: its count is 1 and it is not blocked
\* (blockThreshold > 1; no store call has failed).
C5_FreshWindowAfterBlock ==
    (/\ last.path = "redis"
     /\ last.preTrig.by = "redis"
     /\ faults = 0
     /\ cfg.blockThreshold > 1
     /\ last.at > last.preTrig.at + cfg.blockDuration * MsPerSecond)
        => (last.count = 1 /\ ~last.blocked)

\* a step leaves the count of every blocked identifier as it was, unless the
\* record is replaced or deleted on elapsed time, and lifts a block only on
\* elapsed time (the store's keys: in steps with no failed store call so far)
BlockedUntouched ==
    \A id \in Ids :
        /\ (id \in DOMAIN requestTracker /\ requestTracker[id].blocked)
              => IF id \in DOMAIN requestTracker'
                 THEN \/ requestTracker'[id] = requestTracker[id]
                      \/ requestTracker'[id].firstRequest
                           - requestTracker[id].firstRequest
                             > cfg.windowSeconds * MsPerSecond
                 ELSE \E t \in BagToSet(timers) : t.ip = id /\ t.due <= Now
        /\ (BlockKey(id) \in DOMAIN store /\ faults' = 0)
              => IF BlockKey(id) \in DOMAIN store'
                 THEN \/ StoreView(store', id).count = StoreView(store, id).count
                      \/ clock' = clock + 1
                 ELSE clock' = clock + 1

\* C7 (as claimed): a blocked record is never incremented: from the moment it
\* is marked blocked until it is deleted no evaluation changes its count, and
\* it stops being blocked only by deletion on elapsed time.
C7_BlockedNeverIncremented == [][BlockedUntouched]_vars

\* C9: an evaluation during which the store client is missing or a store call
\* raises ends in the process-local evaluation and in exactly one outcome:
\* the request is passed on, or answered with 429; nothing reaches the
\* middleware's .catch.
C9_StoreFailureContained ==
    (last.fault # "none")
        => /\ last.path = "memory"
           /\ last.post.has
           /\ \/ PassedOn(last) /\ last.status = 0
              \/ Rejected429(last)
           /\ last.next + (IF last.status = TooManyRequests THEN 1 ELSE 0) = 1

C9_Witness ==
    /\ last.fault = "setEx"
    /\ last.path = "memory"
    /\ BlockKey(last.ip) \notin DOMAIN store
    /\ StoreView(store, last.ip).count >= cfg.blockThreshold
    /\ PassedOn(last)

\* the two processes classify the request alike
SameClassification ==
    /\ last.ip = twinLast.ip
    /\ last.at = twinLast.at
    /\ last.blocked = twinLast.blocked
    /\ last.suspicious = twinLast.suspicious
    /\ last.next = twinLast.next
    /\ last.status = twinLast.status

\* C10 (as claimed): each request gets the same classification from the
\* process whose store raises on every call as from the process whose store
\* is not connected.
C10_SameAsDisabled ==
    (last.path \in {"memory", "catch"}) => SameClassification

\* C10 (amended): as long as every raising store call has failed before the
\* clock advanced and before a block timer ran, each request gets the same
\* classification from the process whose store raises on every call as from
\* the process whose store is not connected.
C10_SameAsDisabledWhenPrompt ==
    (~overtaken /\ last.path \in {"memory", "catch"}) => SameClassification

C10_Witness ==
    /\ ~overtaken
    /\ clock > 0
    /\ last.path = "memory"
    /\ last.fault = "get"
    /\ twinLast.fault = "client"
    /\ last.pre.blocked
    /\ Rejected429(last)
    /\ Rejected429(twinLast)

\* the evaluations of an identifier that have their count and wait for the
\* next store call
Counted(bag, id) ==
    {e \in BagToSet(bag) : e.ip = id /\ e.pc \in {"expire", "setEx"}}

\* an evaluation of `id` gets the reply of its increment in this step
IncrReplied(id) ==
    /\ faults' = faults
    /\ \E e \in BagToSet(inflight) :
          /\ e.ip = id
          /\ e.pc = "incr"
          /\ CopiesIn(e, inflight') < CopiesIn(e, inflight)

\* an increment makes the count one more and its evaluation sees that count,
\* which no other pending evaluation holds; the local record is counted up by
\* one, and the evaluation returns that count
IncrementsInOrder ==
    \A id \in Ids :
        /\ IncrReplied(id)
              => LET a == StoreView(store, id).count
                     b == StoreView(store', id).count
                 IN  /\ b = a + 1
                     /\ \/ last'.path = "redis" /\ last'.ip = id /\ last'.count = b
                        \/ \E e \in Counted(inflight', id) :
                              e.count = b /\ CopiesIn(e, inflight') = 1
                     /\ \A e \in Counted(inflight, id) : e.count <= a
        /\ (/\ id \in DOMAIN requestTracker
            /\ id \in DOMAIN requestTracker'
            /\ requestTracker'[id].firstRequest = requestTracker[id].firstRequest
            /\ requestTracker'[id].count # requestTracker[id].count)
              => /\ requestTracker'[id].count = requestTracker[id].count + 1
                 /\ last'.path = "memory"
                 /\ last'.count = requestTracker'[id].count

\* C11: under any interleaving of the evaluations of an identifier no
\* increment is lost: each increment in a window yields the next count, and no
\* two evaluations observe the same one, in the store and in the local map.
C11_NoLostIncrement == [][IncrementsInOrder]_vars

C11_Witness ==
    \E e1, e2 \in BagToSet(inflight) :
        /\ e1.ip = e2.ip
        /\ e1.pc = "expire"
        /\ e1.count = 1
        /\ e2.pc = "setEx"
        /\ e2.count = 2
        /\ StoreView(store, e1.ip).count = 2

\* C12: a handled request has exactly one of two outcomes: next() is called
\* once and no response is written, or the 429 DDOS_DETECTED response is
\* written and next() is not called.
C12_ExactlyOneOutcome ==
    (last.path # "init")
        => \/ last.next = 1 /\ last.status = 0 /\ last.code = ""
           \/ /\ last.next = 0
              /\ last.status = TooManyRequests
              /\ last.code = "DDOS_DETECTED"

C12_Witness ==
    /\ last.path = "redis"
    /\ last.pre.blocked
    /\ last.next = 0
    /\ last.status = TooManyRequests
    /\ inflight = EmptyBag

\* C13 (as claimed): a store call that never completes does not stall the
\* request: every request that is being evaluated is eventually passed on or
\* rejected.
C13_HungCallDoesNotStall ==
    (inflight # EmptyBag) ~> (inflight = EmptyBag)

\* the record that `id` got at second f is in the map
RecordOf(id, f) ==
    /\ id \in DOMAIN requestTracker
    /\ requestTracker[id].firstRequest = f * MsPerSecond

\* C14 (as claimed): a record of the local map whose window has expired is
\* eventually removed, also when its identifier sends no further request.
\* (Stated for the records no block timer is pending for; a pending timer
\* removes the record when it runs.)
C14_ExpiredRecordRemoved ==
    \A id \in Ids : \A f \in 0..MaxClock :
        (/\ RecordOf(id, f)
         /\ \A t \in BagToSet(timers) : t.ip # id
         /\ WindowExpired(requestTracker[id], Now,
                          cfg.windowSeconds * MsPerSecond))
            ~> ~RecordOf(id, f)

\* the last instant of the exploration
Horizon == MaxClock * MsPerSecond

\* the keys the store holds for an identifier
KeysOf(id) == {BlockKey(id), CountKey(id)} \cap DOMAIN store

\* something of the identifier is due to go only after the last instant
BeyondHorizon(id) ==
    \/ \E k \in KeysOf(id) : store[k].expiresAt >= Horizon
    \/ \E t \in BagToSet(timers) : t.ip = id /\ t.due > Horizon

\* C15 (as claimed): blocked is not permanent: as time advances, a blocked
\* identifier's block goes and the identifier is unseen again (no key of it
\* is left in the store; its record is gone from the local map). (Up to the
\* last instant explored.)
C15_BlockedIsNotPermanent ==
    \A id \in Ids :
        /\ (BlockKey(id) \in DOMAIN store)
              ~> (KeysOf(id) = {} \/ BeyondHorizon(id))
        /\ (id \in DOMAIN requestTracker /\ requestTracker[id].blocked)
              ~> (id \notin DOMAIN requestTracker \/ BeyondHorizon(id))

\* C18 (as claimed): whenever an evaluation is about to read or count in the
\* store, every ddos:count and ddos:block key there carries an expiry.
C18_KeysCarryExpiry ==
    (\E e \in BagToSet(inflight) : e.pc \in {"get", "incr"})
        => \A k \in DOMAIN store : store[k].expiresAt # NoTtl

\* the local record is kept, and its count does not go down, while the request
\* is no more than windowSeconds after firstRequest; any other request starts
\* a record at count 1
C16_LocalCountFollowsWindow ==
    (last.path = "memory")
        => IF /\ last.pre.has
              /\ last.at - last.pre.firstRequest <= cfg.windowSeconds * MsPerSecond
           THEN /\ last.post.has
                /\ last.post.firstRequest = last.pre.firstRequest
                /\ last.post.count >= last.pre.count
           ELSE /\ last.post.has
                /\ last.post.firstRequest = last.at
                /\ last.post.count = 1
                /\ last.count = 1

CountFollowsWindow ==
    \A id \in Ids :
        IncrReplied(id)
            => LET k == CountKey(id)
               IN  IF /\ k \in DOMAIN store
                      /\ Now - store[k].since <= cfg.windowSeconds * MsPerSecond
                   THEN store'[k].value >= store[k].value
                   ELSE store'[k].value = 1

\* C16 (as claimed, store-backed path): an increment made no more than
\* windowSeconds after the count key was created does not lower the count,
\* and an increment made later than that starts a new window at count 1.
C16_CountFollowsWindow == [][CountFollowsWindow]_vars

TimersOf(bag, id) == [t \in {x \in BagToSet(bag) : x.ip = id} |-> CopiesIn(t, bag)]

\* what checkDDoSInMemory would answer to a request of `id` at time t
Classification(m, id, t) ==
    CheckDDoSInMemory(m, id, t, cfg.windowSeconds * MsPerSecond, cfg).result

\* the identifier a step is about: the one whose request is evaluated, or
\* the one whose block timer runs
StepIsAbout(id) ==
    \/ last'.ip = id
    \/ \E t \in BagToSet(timers) :
          t.ip = id /\ CopiesIn(t, timers') < CopiesIn(t, timers)

OthersUntouched ==
    \A a \in Ids : \A b \in Ids \ {a} :
        StepIsAbout(a)
            => /\ TrackerOf(requestTracker', b) = TrackerOf(requestTracker, b)
               /\ TimersOf(timers', b) = TimersOf(timers, b)
               /\ \A c \in clock .. MaxClock :
                      Classification(requestTracker', b, c * MsPerSecond)
                          = Classification(requestTracker, b, c * MsPerSecond)

\* C17: a request of identifier A, and the block timer of A, leave the record
\* of every other identifier B, its pending timers and the answer to any
\* later request of B as they were.
C17_OthersUntouched == [][OthersUntouched]_vars

\* the block timer of one identifier has deleted its record while the other
\* identifier has a counted record that is older than that block
C17_Witness ==
    \E a \in Ids : \E b \in Ids \ {a} :
        /\ a \notin DOMAIN requestTracker
        /\ blockTrig[a] # NoTrig
        /\ b \in DOMAIN requestTracker
        /\ requestTracker[b].count >= 1
        /\ requestTracker[b].firstRequest < blockTrig[a].at

\* the tracker map with the record of "unknown" filed under identifier b
FiledUnder(m, b) ==
    IF "unknown" \in DOMAIN m THEN MapSet(m, b, m["unknown"]) ELSE MapDelete(m, b)

UnknownStep ==
    Request(NoIp)
        => LET pre  == TrackerOf(requestTracker, "unknown")
               post == TrackerOf(requestTracker', "unknown")
           IN  /\ last'.ip = "unknown"
               /\ last'.path = "memory"
               /\ last'.pre = pre
               /\ last'.post = post
               /\ post.has
               /\ (/\ pre.has
                   /\ ~pre.blocked
                   /\ ~WindowExpired(requestTracker["unknown"], Now,
                                     cfg.windowSeconds * MsPerSecond))
                     => post.count = pre.count + 1
               /\ \A b \in Ids \ {"unknown"} :
                     LET r == Classification(FiledUnder(requestTracker, b), b, Now)
                     IN  /\ last'.count = r.count
                         /\ last'.blocked = r.blocked
                         /\ last'.suspicious = r.suspicious
               /\ \/ last'.next = 1 /\ last'.status = 0
                  \/ last'.next = 0 /\ last'.status = TooManyRequests

\* C19: a request without a source address is evaluated as identifier
\* "unknown": all such requests count in the one record filed under it, the
\* answer is the one any other identifier with that record would get, and the
\* request is either passed on or answered with 429.
C19_UnknownSharesCounter == [][UnknownStep]_vars

\* two requests without a source address have been counted together
C19_Witness ==
    /\ last.ip = "unknown"
    /\ last.pre.has
    /\ last.post.count >= 2
    /\ "10.0.0.5" \in DOMAIN requestTracker

\* C20 (as claimed): a request is never evaluated under a configuration in
\* which windowSeconds, requestThreshold, blockThreshold or blockDuration is
\* not a positive number.
C20_InvalidNeverEvaluated ==
    (last.path = "memory") => Valid(cfg)

\* C21 (as claimed): with DDOS_ENABLED=true in the environment and the
\* configuration as it was loaded, a request is counted and classified, not
\* merely passed on.
C21_EnabledFollowsFlag ==
    (/\ env.enabled = "true"
     /\ cfg = LoadedConfig(env)
     /\ last.ip # "")
        => last.path = "memory"

\* the time at which the block that scheduled timer t was triggered
ScheduledAt(t) == t.due - cfg.blockDuration * MsPerSecond

\* a block timer that runs while the map holds a record started after the
\* timer's block leaves that record alone
TimerSparesNewerRecord ==
    \A t \in BagToSet(timers) :
        (/\ CopiesIn(t, timers') < CopiesIn(t, timers)
         /\ t.ip \in DOMAIN requestTracker
         /\ requestTracker[t.ip].firstRequest > ScheduledAt(t))
            => /\ t.ip \in DOMAIN requestTracker'
               /\ requestTracker'[t.ip] = requestTracker[t.ip]

\* C22 (as claimed): the deletion scheduled by a block removes only the
\* record of that block; a newer record of the identifier survives it.
C22_TimerSparesNewerRecord == [][TimerSparesNewerRecord]_vars

\* C23 (as claimed): a request of an identifier that the store path blocked
\* less than blockDuration ago, evaluated by the local fallback because a
\* store call failed, is classified blocked.
C23_BlockSurvivesOutage ==
    (/\ last.path = "memory"
     /\ last.fault \in {"get", "incr", "expire", "setEx"}
     /\ last.preTrig.by = "redis"
     /\ last.preTrig.at <= last.at
     /\ last.at < last.preTrig.at + cfg.blockDuration * MsPerSecond
     /\ BlockKey(last.ip) \in DOMAIN store)
        => last.blocked

\* the requests of `id` passed on in the seconds from .. to
RECURSIVE PassedIn(_, _, _)
PassedIn(id, from, to) ==
    IF from > to \/ from > MaxClock THEN 0
    ELSE passed[id][from] + PassedIn(id, from + 1, to)

\* C24 (as claimed): of an identifier that has not been blocked, fewer than
\* blockThreshold requests are passed on in any span of windowSeconds seconds.
C24_SlidingWindow ==
    \A id \in Ids : \A from \in 0 .. clock :
        (blockTrig[id] = NoTrig /\ timers = EmptyBag)
            => PassedIn(id, from, from + cfg.windowSeconds - 1) < cfg.blockThreshold

\* C25 (as claimed): a request classified by the store path, with no store
\* call failed so far, gets the classification the local path gives it (the
\* very instant at which a block ends is left out).
C25_StoreAsLocal ==
    (/\ last.path = "redis"
     /\ faults = 0
     /\ last.at # last.preTrig.at + cfg.blockDuration * MsPerSecond)
        => /\ last.ip = twinLast.ip
           /\ last.blocked = twinLast.blocked
           /\ last.suspicious = twinLast.suspicious

\* C26 (as claimed): an evaluation that goes on in the local map after its
\* EXPIRE or SETEX failed, hence after the store counted the request, does
\* not count the request in the local record as well.
C26_CountedOnce ==
    (last.path = "memory" /\ last.fault \in {"expire", "setEx"})
        => /\ last.post.has = last.pre.has
           /\ last.post.count = last.pre.count

\* an evaluation of `id` gets the reply of its read of the block key
GetReplied(id) ==
    /\ faults' = faults
    /\ \E e \in BagToSet(inflight) :
          /\ e.ip = id
          /\ e.pc = "get"
          /\ CopiesIn(e, inflight') < CopiesIn(e, inflight)

BlocksUnderInterleaving ==
    /\ (last'.path = "redis" /\ faults' = 0 /\ last'.count >= cfg.blockThreshold)
          => Rejected429(last')
    /\ \A id \in Ids :
          (GetReplied(id) /\ BlockKey(id) \in DOMAIN store)
              => /\ last'.ip = id
                 /\ last'.path = "redis"
                 /\ last'.blocked
                 /\ Rejected429(last')

\* C27: in the store path, however the store calls of concurrent evaluations
\* interleave, a request whose increment returns blockThreshold or more is
\* rejected, and an evaluation that reads the block key while it is set is
\* classified blocked (no store call fails).
C27_BlocksUnderInterleaving == [][BlocksUnderInterleaving]_vars

\* an evaluation that read the block key before another one wrote it has
\* counted past the threshold and was rejected, the key being set meanwhile
C27_Witness ==
    /\ last.path = "redis"
    /\ faults = 0
    /\ last.blocked
    /\ last.count > cfg.blockThreshold
    /\ BlockKey(last.ip) \in DOMAIN store

\* C28: every record of the local map has a count from 1 to blockThreshold
\* and is blocked exactly when its count is blockThreshold.
C28_RecordWithinThreshold ==
    \A id \in DOMAIN requestTracker :
        /\ 1 <= requestTracker[id].count
        /\ requestTracker[id].count <= cfg.blockThreshold
        /\ requestTracker[id].blocked
              <=> (requestTracker[id].count = cfg.blockThreshold)

\* a record started after the first second that was counted up to a
\* threshold above 1 and blocked, its timer pending
C28_Witness ==
    \E id \in DOMAIN requestTracker :
        /\ cfg.blockThreshold > 1
        /\ requestTracker[id].blocked
        /\ requestTracker[id].count = cfg.blockThreshold
        /\ requestTracker[id].firstRequest > 0
        /\ BagCardinality(timers) = 1

----------------------------------------------------------------------------
(* The services next to the middleware, each explored on its own *)

middlewareVars ==
    <<env, clock, cfg, requestTracker, timers, redisClient, store, inflight,
      faults, twinTracker, twinTimers, twinLast, overtaken, seen, blockTrig,
      passed, last>>

\* no request has reached the middleware
IdleMiddleware ==
    /\ passed = << >>
    /\ env = NoEnv
    /\ clock = 0
    /\ cfg = LoadedConfig(NoEnv)
    /\ requestTracker = << >>
    /\ timers = EmptyBag
    /\ redisClient = FALSE
    /\ store = << >>
    /\ inflight = EmptyBag
    /\ faults = 0
    /\ twinTracker = << >>
    /\ twinTimers = EmptyBag
    /\ twinLast = NoObservation
    /\ overtaken = FALSE
    /\ seen = [i \in Ids |-> 0]
    /\ blockTrig = [i \in Ids |-> NoTrig]
    /\ last = NoObservation

(* AuthService: logins, refreshes and logouts, one call after the other *)

InitAuth ==
    /\ IdleMiddleware
    /\ transport = NewTransport
    /\ auth \in {[NoSessions EXCEPT !.enabled = e] : e \in BOOLEAN}

Login(userId) ==
    /\ auth' = LoginAs(auth, userId)
    /\ UNCHANGED <<transport, middlewareVars>>

RefreshAccessToken(refreshToken) ==
    /\ auth' = RefreshedWith(auth, refreshToken)
    /\ UNCHANGED <<transport, middlewareVars>>

Logout(userId, refreshToken) ==
    /\ auth' = LoggedOut(auth, userId, refreshToken)
    /\ UNCHANGED <<transport, middlewareVars>>

\* a second passes on the clock jwt.sign reads
AuthTick ==
    /\ auth.now < MaxIat
    /\ auth' = [auth EXCEPT !.now = @ + 1]
    /\ UNCHANGED <<transport, middlewareVars>>

NextAuth ==
    \/ \E userId \in Users : Login(userId)
    \/ \E refreshToken \in auth.issued \cup {ForgedToken(u) : u \in Users} :
           RefreshAccessToken(refreshToken)
    \/ \E userId \in Users : \E refreshToken \in auth.issued :
           Logout(userId, refreshToken)
    \/ AuthTick

SpecAuth == InitAuth /\ [][NextAuth]_vars

\* C29: with the token store enabled, a refresh with a token that was used
\* for a refresh or logged out since it was issued returns null, and a
\* refresh with an issued token that was not returns new tokens.
C29_RevokedIndividually ==
    (auth.enabled /\ auth.call.op = "refresh" /\ auth.call.wasIssued) =>
        (auth.call.ok <=> ~auth.call.wasSpent)

(* DatabaseTransport: log() calls, flushes and the outcomes of the inserts *)

InitTransport ==
    /\ IdleMiddleware
    /\ auth = NoSessions
    /\ transport = NewTransport

LogCall ==
    /\ transport.logged < MaxLogged
    /\ transport' = Log(transport)
    /\ UNCHANGED <<auth, middlewareVars>>

\* the interval timer fires
IntervalFlush ==
    /\ transport.flushInterval
    /\ Len(transport.buffer) > 0
    /\ transport' = Flush(transport)
    /\ UNCHANGED <<auth, middlewareVars>>

InsertResolves(logsToInsert) ==
    /\ transport' = Inserted(transport, logsToInsert)
    /\ UNCHANGED <<auth, middlewareVars>>

InsertRejects(logsToInsert) ==
    /\ transport' = InsertFailed(transport, logsToInsert)
    /\ UNCHANGED <<auth, middlewareVars>>

CloseCall ==
    /\ transport.flushInterval
    /\ transport' = Close(transport)
    /\ UNCHANGED <<auth, middlewareVars>>

NextTransport ==
    \/ LogCall
    \/ IntervalFlush
    \/ \E logsToInsert \in transport.flights : InsertResolves(logsToInsert)
    \/ \E logsToInsert \in transport.flights : InsertRejects(logsToInsert)
    \/ CloseCall

SpecTransport == InitTransport /\ [][NextTransport]_vars

Range(seq) == {seq[i] : i \in DOMAIN seq}

Ascending(seq) == \A i, j \in DOMAIN seq : i < j => seq[i] < seq[j]

\* the places an entry is in: the table, the buffer, a batch in flight
Copies(t, n) ==
    Cardinality({i \in DOMAIN t.rows : t.rows[i] = n})
    + Cardinality({i \in DOMAIN t.buffer : t.buffer[i] = n})
    + Cardinality({b \in t.flights : n \in Range(b)})

\* every logged entry is in exactly one place, and once there
LogNeitherLostNorDuplicated ==
    \A n \in 1..transport.logged : Copies(transport, n) = 1

\* C30: every logged entry is inserted once or still waiting (in the buffer
\* or in a flush in flight), and the rows of the table are in logging order.
C30_InsertedInLoggingOrder ==
    /\ LogNeitherLostNorDuplicated
    /\ Ascending(transport.rows)

====
